---- MODULE Spec2Model ----
(***************************************************************************)
(* A model of clicount's src/main.py: the category normalizer              *)
(* (load_categories, process_yaml_dict), the category flattener            *)
(* (flatten_categories), the interactive selector (get_category_value)     *)
(* and the flat-file store (save_to_csv).                                  *)
(*                                                                         *)
(* Python values are records [t, v]: t is the Python type and v a          *)
(* sequence (the characters of a str as code points, the one number of an  *)
(* int, the items of a list, the (key, value) pairs of a dict in insertion *)
(* order).  A call's outcome is a record [exc, val]: the exception it      *)
(* raised ("none" when it returned) and the value it returned.             *)
(***************************************************************************)
EXTENDS Integers, Sequences, FiniteSets, TLC

VARIABLES
  fl_pc, fl_dict, fl_prefix, fl_out, fl_out2, \* calls of flatten_categories
  ld_pc, ld_file, ld_out,                     \* a call of load_categories
  sel_pc, sel_header, sel_cats, sel_flat,     \* a call of get_category_value:
  sel_menu, sel_read, sel_diag, sel_ret,      \* its menu, stdin, stdout, result
  csv_file, csv_headers, csv_clock,           \* the CSV file, its columns, the time
  csv_absent, csv_saved,                      \* whether the file was absent at the
                                              \* start, and the rows saved since
  csv_exc, csv_prev,                          \* what the last save_to_csv raised,
                                              \* and the file as that call found it
  show_pc, show_out,                          \* a call of show_entries: its stdout
  ses_pc, ses_cats, ses_answers, ses_field,   \* the entry session of main: where it
  ses_flat, ses_line, ses_last, ses_out,      \* waits for input, its categories and
  ses_steps                                   \* answers, the field and options at
                                              \* hand, the line read last and where
                                              \* it was read, what was printed after
                                              \* it, the number of lines read

flVars == <<fl_pc, fl_dict, fl_prefix, fl_out, fl_out2>>
ldVars == <<ld_pc, ld_file, ld_out>>
selVars == <<sel_pc, sel_header, sel_cats, sel_flat, sel_menu, sel_read, sel_diag, sel_ret>>
csvVars == <<csv_file, csv_headers, csv_clock, csv_absent, csv_saved, csv_exc, csv_prev>>
showVars == <<show_pc, show_out>>
sesVars ==
  <<ses_pc, ses_cats, ses_answers, ses_field, ses_flat, ses_line, ses_last, ses_out,
    ses_steps>>
vars == <<flVars, ldVars, selVars, csvVars, showVars, sesVars>>

-----------------------------------------------------------------------------
(* Bounds of the model.                                                    *)

\* longest category list handed to flatten_categories
MaxLen == 3
\* most keys and scalars in the category file's tree below the category names
MaxSize == 3
\* most lines one get_category_value call reads
MaxReads == 3
\* most save_to_csv calls of one run
MaxSaves == 2

-----------------------------------------------------------------------------
(* Python values.                                                          *)

\* ord('.'), the path separator
DOT == 46

PyStr(s) == [t |-> "str", v |-> s]
PyInt(n) == [t |-> "int", v |-> <<n>>]
PyNone == [t |-> "none", v |-> <<>>]
PyList(l) == [t |-> "list", v |-> l]
PyDict(pairs) == [t |-> "dict", v |-> pairs]

Ok(val) == [exc |-> "none", val |-> val]
Raise(e) == [exc |-> e, val |-> PyNone]

\* bool(x): None, 0 and the empty str, list and dict are falsy
Truthy(x) ==
  CASE x.t = "none" -> FALSE
    [] x.t = "int" -> x.v[1] # 0
    [] OTHER -> x.v # <<>>

\* '.' in item
HasDot(s) == \E i \in 1..Len(s) : s[i] = DOT

\* str(x) as an f-string renders it: a str as itself, None as 'None', a
\* one-digit int as its digit.
Format(x) ==
  CASE x.t = "str" -> x.v
    [] x.t = "int" -> <<48 + x.v[1]>>
    [] OTHER -> <<78, 111, 110, 101>>

\* a < b on str: by code point, a proper prefix first
StrLess(a, b) ==
  \E i \in 1..(Len(b)) :
    /\ \A j \in 1..(i - 1) : j <= Len(a) /\ a[j] = b[j]
    /\ \/ i = Len(a) + 1
       \/ i <= Len(a) /\ a[i] < b[i]

\* x < y as sorted() evaluates it on two values of one type
PyLess(x, y) ==
  IF x.t = "int" THEN x.v[1] < y.v[1] ELSE StrLess(x.v, y.v)

\* set(result)
PySet(result) == {result[i] : i \in 1..Len(result)}

\* whether sorted() can order S: str against str, int against int; any other
\* comparison raises TypeError
Orderable(S) ==
  \/ Cardinality(S) <= 1
  \/ \A x \in S : x.t = "str"
  \/ \A x \in S : x.t = "int"

RECURSIVE SortAsc(_)
SortAsc(S) ==
  IF S = {} THEN <<>>
  ELSE LET m == CHOOSE x \in S : \A y \in S \ {x} : PyLess(x, y)
       IN <<m>> \o SortAsc(S \ {m})

\* PySorted without set() and sorted(): the list as it was built
PySorted_AsBuilt(result) == Ok(PyList(result))

\* sorted(list(set(result)))
PySorted(result) ==
  IF Orderable(PySet(result)) THEN Ok(PyList(SortAsc(PySet(result))))
  ELSE Raise("TypeError")

-----------------------------------------------------------------------------
(* flatten_categories                                                      *)

\* the part of s after its last '.'
LastSegment(s) ==
  LET last == CHOOSE i \in 0..Len(s) :
                /\ i > 0 => s[i] = DOT
                /\ \A j \in (i + 1)..Len(s) : s[j] # DOT
  IN SubSeq(s, last + 1, Len(s))

\* FlattenItem with a sublist attached to the first entry, not the last
FlattenItem_ParentFirst(item, prefix, result) ==
  IF item.t = "str" THEN
    IF HasDot(item.v) THEN Append(result, item)
    ELSE Append(result,
                IF prefix # <<>> THEN PyStr(prefix \o <<DOT>> \o item.v) ELSE item)
  ELSE IF item.t = "list" THEN
    IF result # <<>> THEN
      LET parent == result[1]
      IN result \o [i \in 1..Len(item.v) |->
                      PyStr(Format(parent) \o <<DOT>> \o Format(item.v[i]))]
    ELSE result
  ELSE result

\* FlattenItem with the children of a sublist that has no parent kept as
\* entries of their own
FlattenItem_OrphanKept(item, prefix, result) ==
  IF item.t = "str" THEN
    IF HasDot(item.v) THEN Append(result, item)
    ELSE Append(result,
                IF prefix # <<>> THEN PyStr(prefix \o <<DOT>> \o item.v) ELSE item)
  ELSE IF item.t = "list" THEN
    IF result # <<>> THEN
      LET parent == result[Len(result)]
      IN result \o [i \in 1..Len(item.v) |->
                      PyStr(Format(parent) \o <<DOT>> \o Format(item.v[i]))]
    ELSE result \o [i \in 1..Len(item.v) |-> PyStr(Format(item.v[i]))]
  ELSE result

\* FlattenItem with a string that holds a '.' cut at its last '.'
FlattenItem_SplitDotted(item, prefix, result) ==
  IF item.t = "str" THEN
    IF HasDot(item.v) THEN Append(result, PyStr(LastSegment(item.v)))
    ELSE Append(result,
                IF prefix # <<>> THEN PyStr(prefix \o <<DOT>> \o item.v) ELSE item)
  ELSE IF item.t = "list" THEN
    IF result # <<>> THEN
      LET parent == result[Len(result)]
      IN result \o [i \in 1..Len(item.v) |->
                      PyStr(Format(parent) \o <<DOT>> \o Format(item.v[i]))]
    ELSE result
  ELSE result

\* FlattenItem without the branch for strings that hold a '.'
FlattenItem_NoDotBranch(item, prefix, result) ==
  IF item.t = "str" THEN
    Append(result,
           IF prefix # <<>> THEN PyStr(prefix \o <<DOT>> \o item.v) ELSE item)
  ELSE IF item.t = "list" THEN
    IF result # <<>> THEN
      LET parent == result[Len(result)]
      IN result \o [i \in 1..Len(item.v) |->
                      PyStr(Format(parent) \o <<DOT>> \o Format(item.v[i]))]
    ELSE result
  ELSE result

\* FlattenItem with two sublists in a row taken as siblings: the parent is
\* the last entry that holds no '.', when there is one
FlattenItem_SiblingSublists(item, prefix, result) ==
  IF item.t = "str" THEN
    IF HasDot(item.v) THEN Append(result, item)
    ELSE Append(result,
                IF prefix # <<>> THEN PyStr(prefix \o <<DOT>> \o item.v) ELSE item)
  ELSE IF item.t = "list" THEN
    IF result # <<>> THEN
      LET plain == {i \in 1..Len(result) : ~HasDot(Format(result[i]))}
          parent == IF plain = {} THEN result[Len(result)]
                    ELSE result[CHOOSE i \in plain : \A j \in plain : j <= i]
      IN result \o [i \in 1..Len(item.v) |->
                      PyStr(Format(parent) \o <<DOT>> \o Format(item.v[i]))]
    ELSE result
  ELSE result

\* one pass of the inner loop: `for item in values`
FlattenItem(item, prefix, result) ==
  IF item.t = "str" THEN
    IF HasDot(item.v) THEN Append(result, item)
    ELSE Append(result,
                IF prefix # <<>> THEN PyStr(prefix \o <<DOT>> \o item.v) ELSE item)
  ELSE IF item.t = "list" THEN
    IF result # <<>> THEN
      LET parent == result[Len(result)]
      IN result \o [i \in 1..Len(item.v) |->
                      PyStr(Format(parent) \o <<DOT>> \o Format(item.v[i]))]
    ELSE result
  ELSE result

RECURSIVE FlattenValues(_, _, _)
FlattenValues(values, prefix, result) ==
  IF values = <<>> THEN result
  ELSE FlattenValues(Tail(values), prefix, FlattenItem(Head(values), prefix, result))

\* FlattenPairs with each category's name put before its entries
RECURSIVE FlattenPairs_KeyAsPrefix(_, _, _)
FlattenPairs_KeyAsPrefix(pairs, prefix, result) ==
  IF pairs = <<>> THEN result
  ELSE LET values == Head(pairs)[2]
       IN FlattenPairs_KeyAsPrefix(Tail(pairs), prefix,
                       IF values.t = "list"
                       THEN FlattenValues(values.v, Format(Head(pairs)[1]), result)
                       ELSE result)

\* the outer loop: `for key, values in category_dict.items()`, one
\* accumulator for all keys
RECURSIVE FlattenPairs(_, _, _)
FlattenPairs(pairs, prefix, result) ==
  IF pairs = <<>> THEN result
  ELSE LET values == Head(pairs)[2]
       IN FlattenPairs(Tail(pairs), prefix,
                       IF values.t = "list"
                       THEN FlattenValues(values.v, prefix, result)
                       ELSE result)

\* flatten_categories(category_dict, prefix='', result=None); a non-empty
\* value that is no dict has no .items()
flatten_categories(category_dict, prefix, result) ==
  LET result0 == IF result = PyNone THEN <<>> ELSE result.v
  IN IF ~Truthy(category_dict) THEN Ok(PyList(result0))
     ELSE IF category_dict.t # "dict" THEN Raise("AttributeError")
     ELSE PySorted(FlattenPairs(category_dict.v, prefix, result0))

-----------------------------------------------------------------------------
(* load_categories and process_yaml_dict                                   *)

\* UnderPrefix with the prefix left out
UnderPrefix_Dropped(prefix, x) == x

\* f"{prefix}.{x}" if prefix else x
UnderPrefix(prefix, x) ==
  IF Truthy(prefix) THEN PyStr(Format(prefix) \o <<DOT>> \o Format(x)) ELSE x

RECURSIVE process_yaml_dict(_, _)
RECURSIVE ProcessPairs(_, _)
RECURSIVE ProcessItems(_, _)

\* `for key, value in item.items()`: the key's path, then its value's paths
ProcessPairs(pairs, prefix) ==
  IF pairs = <<>> THEN <<>>
  ELSE LET key_path == UnderPrefix(prefix, Head(pairs)[1])
       IN <<key_path>> \o process_yaml_dict(Head(pairs)[2], key_path)
            \o ProcessPairs(Tail(pairs), prefix)

\* `for item in data`
ProcessItems(data, prefix) ==
  IF data = <<>> THEN <<>>
  ELSE (IF Head(data).t = "dict" THEN ProcessPairs(Head(data).v, prefix)
        ELSE <<UnderPrefix(prefix, Head(data))>>)
         \o ProcessItems(Tail(data), prefix)

process_yaml_dict(data, prefix) ==
  IF data.t = "list" THEN ProcessItems(data.v, prefix)
  ELSE IF data.t = "dict" THEN ProcessPairs(data.v, prefix)
  ELSE <<>>

\* `for key, value in item.items()` of load_categories: the key as it is
RECURSIVE LoadItemPairs(_)
LoadItemPairs(pairs) ==
  IF pairs = <<>> THEN <<>>
  ELSE <<Head(pairs)[1]>> \o process_yaml_dict(Head(pairs)[2], Head(pairs)[1])
         \o LoadItemPairs(Tail(pairs))

\* `for item in items` of load_categories: the list `processed`
RECURSIVE Processed(_)
Processed(items) ==
  IF items = <<>> THEN <<>>
  ELSE (IF Head(items).t = "str" THEN <<Head(items)>>
        ELSE IF Head(items).t = "dict" THEN LoadItemPairs(Head(items).v)
        ELSE <<>>)
         \o Processed(Tail(items))

\* `for category, items in data.items()`; a TypeError of sorted() is not
\* caught
RECURSIVE LoadPairs(_, _)
LoadPairs(pairs, result) ==
  IF pairs = <<>> THEN Ok(PyDict(result))
  ELSE LET category == Head(pairs)[1]
           items == Head(pairs)[2]
       IN IF items.t # "list" THEN LoadPairs(Tail(pairs), result)
          ELSE LET processed == Processed(items.v)
                   sorted == PySorted(processed)
               IN IF processed = <<>> THEN LoadPairs(Tail(pairs), result)
                  ELSE IF sorted.exc # "none" THEN sorted
                  ELSE LoadPairs(Tail(pairs), Append(result, <<category, sorted.val>>))

\* The category file: whether it exists, whether yaml.safe_load raises
\* yaml.YAMLError on it, and the value safe_load returns otherwise (None
\* for an empty file).
CatFile(exists, parses, data) == [exists |-> exists, parses |-> parses, data |-> data]

load_categories(file) ==
  IF ~file.exists THEN Ok(PyDict(<<>>))
  ELSE IF ~file.parses THEN Ok(PyDict(<<>>))
  ELSE IF file.data.t # "dict" THEN Ok(PyDict(<<>>))
  ELSE LoadPairs(file.data.v, <<>>)

-----------------------------------------------------------------------------
(* The inputs of flatten_categories.                                       *)

SA == PyStr(<<97>>)
SB == PyStr(<<98>>)
SAB == PyStr(<<97, DOT, 98>>)
KeyC == PyStr(<<67>>)
KeyD == PyStr(<<68>>)

\* a mapping element, as the YAML `- b: [a]` gives it
SampleDict == PyDict(<< <<SB, PyList(<<SA>>)>> >>)

\* sublists of children
SubLists ==
  {PyList(<<>>), PyList(<<SA>>), PyList(<<SB>>), PyList(<<SA, SB>>),
   PyList(<<SB, PyInt(1)>>)}

FlItems == {SA, SB, SAB} \cup SubLists \cup {PyInt(5), SampleDict}

RECURSIVE SeqsUpTo(_, _)
SeqsUpTo(S, n) ==
  IF n = 0 THEN {<<>>}
  ELSE LET shorter == SeqsUpTo(S, n - 1)
       IN shorter \cup {Append(q, x) : q \in {r \in shorter : Len(r) = n - 1}, x \in S}

FlLists == SeqsUpTo(FlItems, MaxLen)

\* {'C': L}
OneCategory(values) == PyDict(<< <<KeyC, values>> >>)

FlDicts ==
  {OneCategory(PyList(l)) : l \in FlLists}
  \cup {OneCategory(SA), OneCategory(PyNone)}
  \cup {PyDict(<< <<KeyC, PyList(l1)>>, <<KeyD, PyList(l2)>> >>) :
          l1, l2 \in {l \in FlLists : Len(l) < MaxLen - 1}}
  \cup {PyDict(<< <<KeyC, SA>>, <<KeyD, PyList(<<SA>>)>> >>)}

\* values that are no mapping, or an empty one
FlOthers ==
  {PyNone, PyDict(<<>>), PyStr(<<>>), SA, PyList(<<>>), PyList(<<SA>>),
   PyInt(0), PyInt(5)}

\* the prefix argument: the default '' and 'p'
Prefixes == {<<>>, <<112>>}

-----------------------------------------------------------------------------
(* The category files: the trees yaml.safe_load can return, by the number  *)
(* n of keys and scalars in them.  Keys are 'a', '', 0 and 1; scalars are  *)
(* 'a', 'b' and 1; a key's value is None, a scalar, a list or a mapping; a *)
(* list item is a scalar or a mapping; a mapping has one key, or the two   *)
(* keys 'a' and 'b'.                                                       *)

TreeKeys == {SA, PyStr(<<>>), PyInt(0), PyInt(1)}
TreeScalars == {SA, SB, PyInt(1)}

Trees[n \in Nat] ==
  IF n = 0 THEN [pairs |-> {}, items |-> {}, lists |-> {<<>>}, values |-> {PyNone}]
  ELSE LET pairs ==
             {<< <<k, v>> >> : k \in TreeKeys, v \in Trees[n - 1].values}
             \cup UNION {{<< <<SA, v1>>, <<SB, v2>> >> :
                            v1 \in Trees[a].values, v2 \in Trees[n - 2 - a].values} :
                          a \in 0..(n - 2)}
           scalars == IF n = 1 THEN TreeScalars ELSE {}
           items == scalars \cup {PyDict(q) : q \in pairs}
           ItemsOf(k) == IF k = n THEN items ELSE Trees[k].items
           lists == UNION {{<<i>> \o r : i \in ItemsOf(k), r \in Trees[n - k].lists} :
                           k \in 1..n}
       IN [pairs |-> pairs, items |-> items, lists |-> lists,
           values |-> scalars \cup {PyList(l) : l \in lists}
                        \cup {PyDict(q) : q \in pairs}]

\* the lists of at most n keys and scalars
ListsUpTo(n) == UNION {Trees[k].lists : k \in 0..n}

\* ['b', {'a': ['b', {'a': ['a', 'b']}]}]: a mapping below a mapping
DeepList ==
  <<SB, PyDict(<< <<SA, PyList(<<SB, PyDict(<< <<SA, PyList(<<SA, SB>>)>> >>)>>)>> >>)>>

\* the values safe_load returns, with at most size keys and scalars below
\* the category names
LdDatas(size) ==
  {OneCategory(PyList(l)) : l \in ListsUpTo(size) \cup {DeepList}}
  \cup UNION {{PyDict(<< <<KeyC, PyList(l1)>>, <<KeyD, PyList(l2)>> >>) :
                 l1 \in Trees[a].lists, l2 \in ListsUpTo(size - 1 - a)} :
               a \in 0..(size - 1)}
  \cup {OneCategory(SA), OneCategory(PyNone), OneCategory(SampleDict),
        PyDict(<< <<KeyC, SA>>, <<KeyD, PyList(<<SA>>)>> >>)}
  \cup {PyNone, SA, PyInt(5), PyList(<<SA>>), PyDict(<<>>)}

LdFiles(size) ==
  {CatFile(FALSE, FALSE, PyNone), CatFile(TRUE, FALSE, PyNone)}
  \cup {CatFile(TRUE, TRUE, d) : d \in LdDatas(size)}

-----------------------------------------------------------------------------
(* The state machine of a flatten_categories call, and of a second call on *)
(* the first one's result.                                                 *)

NoOut == Raise("pending")

FlIdle ==
  /\ fl_pc = "idle" /\ fl_dict = PyNone /\ fl_prefix = <<>>
  /\ fl_out = NoOut /\ fl_out2 = NoOut

LdIdle ==
  /\ ld_pc = "idle" /\ ld_file = CatFile(FALSE, FALSE, PyNone) /\ ld_out = NoOut

CsvIdle ==
  /\ csv_file = [exists |-> FALSE, content |-> <<>>] /\ csv_headers = <<>>
  /\ csv_clock = 0 /\ csv_absent = TRUE /\ csv_saved = <<>>
  /\ csv_exc = "none" /\ csv_prev = <<>>

SelIdle ==
  /\ sel_pc = "idle" /\ sel_header = KeyC /\ sel_cats = PyDict(<<>>)
  /\ sel_flat = <<>> /\ sel_menu = <<>> /\ sel_read = <<>> /\ sel_diag = <<>>
  /\ sel_ret = PyNone

NoShow == [printed |-> <<>>, headers |-> <<>>, data |-> <<>>, total |-> 0]

ShowIdle == show_pc = "idle" /\ show_out = NoShow

SesIdle ==
  /\ ses_pc = "idle" /\ ses_cats = PyDict(<<>>) /\ ses_answers = <<>>
  /\ ses_field = 0 /\ ses_flat = <<>> /\ ses_line = <<>> /\ ses_out = <<>>
  /\ ses_last = [pc |-> "idle", field |-> 0] /\ ses_steps = 0

InitFlatten ==
  /\ fl_pc = "call"
  /\ fl_dict \in FlDicts \cup FlOthers
  /\ fl_prefix \in Prefixes
  /\ fl_out = NoOut /\ fl_out2 = NoOut
  /\ LdIdle /\ SelIdle /\ CsvIdle /\ ShowIdle /\ SesIdle

\* result = flatten_categories(category_dict, prefix)
FlattenCall ==
  /\ fl_pc = "call"
  /\ fl_out' = flatten_categories(fl_dict, fl_prefix, PyNone)
  /\ fl_pc' = "done"
  /\ UNCHANGED <<fl_dict, fl_prefix, fl_out2, ldVars, selVars, csvVars, showVars, sesVars>>

\* flatten_categories({header: result}, prefix) on a returned list
FlattenAgain ==
  /\ fl_pc = "done" /\ fl_out.exc = "none"
  /\ fl_out2' = flatten_categories(OneCategory(fl_out.val), fl_prefix, PyNone)
  /\ fl_pc' = "again"
  /\ UNCHANGED <<fl_dict, fl_prefix, fl_out, ldVars, selVars, csvVars, showVars, sesVars>>

NextFlatten == FlattenCall \/ FlattenAgain

SpecFlatten == InitFlatten /\ [][NextFlatten]_vars

-----------------------------------------------------------------------------
(* The state machine of a load_categories call.                            *)

InitLoad ==
  /\ ld_pc = "call"
  /\ ld_file \in LdFiles(MaxSize)
  /\ ld_out = NoOut
  /\ FlIdle /\ SelIdle /\ CsvIdle /\ ShowIdle /\ SesIdle

\* categories = load_categories(args.categories)
LoadCall ==
  /\ ld_pc = "call"
  /\ ld_out' = load_categories(ld_file)
  /\ ld_pc' = "done"
  /\ UNCHANGED <<ld_file, flVars, selVars, csvVars, showVars, sesVars>>

NextLoad == LoadCall

SpecLoad == InitLoad /\ [][NextLoad]_vars

\* flat_categories = flatten_categories({header: categories[header]}), for a
\* header that is in the loaded categories
FlattenLoaded ==
  /\ ld_pc = "done" /\ ld_out.exc = "none" /\ fl_pc = "idle"
  /\ \E i \in 1..Len(ld_out.val.v) : fl_dict' = PyDict(<<ld_out.val.v[i]>>)
  /\ fl_prefix' = <<>>
  /\ fl_pc' = "call"
  /\ UNCHANGED <<fl_out, fl_out2, ldVars, selVars, csvVars, showVars, sesVars>>

\* a call of either function, and the flattening of what was loaded
NextCategories == NextFlatten \/ NextLoad \/ FlattenLoaded

SpecCategories == (InitFlatten \/ InitLoad) /\ [][NextCategories]_vars

-----------------------------------------------------------------------------
(* get_category_value                                                      *)

IsDigit(c) == c \in 48..57

\* s.strip() of blanks
RECURSIVE Strip(_)
Strip(s) ==
  IF s # <<>> /\ s[1] = 32 THEN Strip(Tail(s))
  ELSE IF s # <<>> /\ s[Len(s)] = 32 THEN Strip(SubSeq(s, 1, Len(s) - 1))
  ELSE s

RECURSIVE DigitsValue(_)
DigitsValue(s) ==
  IF s = <<>> THEN 0
  ELSE 10 * DigitsValue(SubSeq(s, 1, Len(s) - 1)) + (s[Len(s)] - 48)

\* int(line): blanks around it stripped, a sign, then digits and nothing
\* else; ok is FALSE where int() raises ValueError
ParseInt(line) ==
  LET t == Strip(line)
      signed == t # <<>> /\ t[1] \in {43, 45}
      digits == IF signed THEN Tail(t) ELSE t
  IN IF digits # <<>> /\ \A i \in 1..Len(digits) : IsDigit(digits[i])
     THEN [ok |-> TRUE,
           val |-> IF signed /\ t[1] = 45 THEN 0 - DigitsValue(digits)
                   ELSE DigitsValue(digits)]
     ELSE [ok |-> FALSE, val |-> 0]

\* `header in categories` and categories[header]
HasKey(d, key) == \E i \in 1..Len(d.v) : d.v[i][1] = key
Lookup(d, key) == d.v[CHOOSE i \in 1..Len(d.v) : d.v[i][1] = key][2]

\* Menu with the options numbered from the last one
Menu_Reversed(flat_categories) ==
  [i \in 1..Len(flat_categories) |->
     <<i, flat_categories[Len(flat_categories) + 1 - i]>>]

\* the numbered options one pass of the loop prints
Menu(flat_categories) == [i \in 1..Len(flat_categories) |-> <<i, flat_categories[i]>>]

InvalidChoice == "Invalid choice. Please try again."
NotANumber == "Please enter a valid number."

\* SelectorStep taking 0 for a choice: flat_categories[-1] is the last option
SelectorStep_ZeroAccepted(flat_categories, line) ==
  LET choice == ParseInt(line)
  IN IF ~choice.ok THEN [returns |-> FALSE, value |-> PyNone, diag |-> NotANumber]
     ELSE IF 0 <= choice.val /\ choice.val <= Len(flat_categories) /\ flat_categories # <<>>
     THEN [returns |-> TRUE,
           value |-> flat_categories[IF choice.val = 0 THEN Len(flat_categories)
                                     ELSE choice.val],
           diag |-> ""]
     ELSE [returns |-> FALSE, value |-> PyNone, diag |-> InvalidChoice]

\* the try block of the loop, on the line input() returned
SelectorStep(flat_categories, line) ==
  LET choice == ParseInt(line)
  IN IF ~choice.ok THEN [returns |-> FALSE, value |-> PyNone, diag |-> NotANumber]
     ELSE IF 1 <= choice.val /\ choice.val <= Len(flat_categories)
     THEN [returns |-> TRUE, value |-> flat_categories[choice.val], diag |-> ""]
     ELSE [returns |-> FALSE, value |-> PyNone, diag |-> InvalidChoice]

\* the lines stdin may hold: '', 'abc', '2a', '1.0', '0', '1' to '5', '99',
\* '-1', '+3' and ' 2 '
Lines ==
  {<<>>, <<97, 98, 99>>, <<50, 97>>, <<49, 46, 48>>, <<48>>, <<49>>, <<50>>, <<51>>,
   <<52>>, <<53>>, <<57, 57>>, <<45, 49>>, <<43, 51>>, <<32, 50, 32>>}

\* category lists handed to the selector: as loaded, hand-written with a
\* sublist and out of order, of one option, and empty
SelLists ==
  {<<SA, SAB, SB>>, <<SB, SA, PyList(<<SA, SB>>)>>, <<SB>>, <<>>}

SelCats ==
  {OneCategory(PyList(l)) : l \in SelLists}
  \cup {PyDict(<< <<KeyD, PyList(<<SA>>)>>, <<KeyC, PyList(<<SB, SA>>)>> >>),
        PyDict(<< <<KeyD, PyList(<<SA>>)>> >>)}

InitSelector ==
  /\ sel_pc = "call"
  /\ sel_header = KeyC
  /\ sel_cats \in SelCats
  /\ sel_flat = <<>> /\ sel_menu = <<>> /\ sel_read = <<>> /\ sel_diag = <<>>
  /\ sel_ret = PyNone
  /\ FlIdle /\ LdIdle /\ CsvIdle /\ ShowIdle /\ SesIdle

\* `if header not in categories: return None`
SelectorNoCategory ==
  /\ sel_pc = "call" /\ ~HasKey(sel_cats, sel_header)
  /\ sel_pc' = "returned" /\ sel_ret' = PyNone
  /\ UNCHANGED <<sel_header, sel_cats, sel_flat, sel_menu, sel_read, sel_diag,
                 flVars, ldVars, csvVars, showVars, sesVars>>

\* flat_categories = flatten_categories({header: categories[header]}), and
\* the first pass of the loop prints the options
SelectorStart ==
  /\ sel_pc = "call" /\ HasKey(sel_cats, sel_header)
  /\ LET flat == flatten_categories(
                    PyDict(<< <<sel_header, Lookup(sel_cats, sel_header)>> >>),
                    <<>>, PyNone).val.v
     IN sel_flat' = flat /\ sel_menu' = Menu(flat)
  /\ sel_pc' = "prompt"
  /\ UNCHANGED <<sel_header, sel_cats, sel_read, sel_diag, sel_ret, flVars, ldVars, csvVars,
                 showVars, sesVars>>

\* input() returns a line: the choice is returned, or a diagnostic is
\* printed and the next pass prints the options again
SelectorRead ==
  /\ sel_pc = "prompt" /\ Len(sel_read) < MaxReads
  /\ \E line \in Lines :
       LET step == SelectorStep(sel_flat, line)
       IN /\ sel_read' = Append(sel_read, line)
          /\ IF step.returns
             THEN sel_pc' = "returned" /\ sel_ret' = step.value
                  /\ UNCHANGED <<sel_diag, sel_menu>>
             ELSE sel_diag' = Append(sel_diag, step.diag)
                  /\ sel_menu' = Menu(sel_flat)
                  /\ UNCHANGED <<sel_pc, sel_ret>>
  /\ UNCHANGED <<sel_header, sel_cats, sel_flat, flVars, ldVars, csvVars, showVars, sesVars>>

NextSelector == SelectorNoCategory \/ SelectorStart \/ SelectorRead

SpecSelector == InitSelector /\ [][NextSelector]_vars

\* C4: on a non-empty option list, every line that is no number, or a
\* number outside 1..len, was consumed with its diagnostic and left the
\* selector prompting; the selector has returned exactly when the last line
\* read is the first in-range number k, and then the result is the k-th
\* option displayed, an element of the list.
IsNumber(line) ==
  LET t == Strip(line)
      d == IF t # <<>> /\ t[1] \in {43, 45} THEN Tail(t) ELSE t
  IN d # <<>> /\ \A i \in 1..Len(d) : d[i] \in 48..57
NumberOf(line) == ParseInt(line).val
InRange(line) == IsNumber(line) /\ NumberOf(line) \in 1..Len(sel_flat)
DiagFor(line) == IF IsNumber(line) THEN InvalidChoice ELSE NotANumber

C4_SelectorRetry ==
  (sel_pc \in {"prompt", "returned"} /\ sel_flat # <<>>) =>
    LET n == Len(sel_read)
        rejected == IF sel_pc = "returned" THEN n - 1 ELSE n
    IN /\ \A i \in 1..rejected : ~InRange(sel_read[i])
       /\ sel_diag = [i \in 1..rejected |-> DiagFor(sel_read[i])]
       /\ sel_pc = "returned" =>
            /\ n >= 1 /\ InRange(sel_read[n])
            /\ sel_ret = sel_menu[NumberOf(sel_read[n])][2]
            /\ sel_menu[NumberOf(sel_read[n])][1] = NumberOf(sel_read[n])
            /\ sel_ret \in PySet(sel_flat)

\* 'abc', '0' and then '2' were read against ['a', 'a.b', 'b']: 'a.b'
C4_Witness ==
  /\ sel_pc = "returned"
  /\ sel_flat = <<SA, SAB, SB>>
  /\ sel_read = <<<<97, 98, 99>>, <<48>>, <<50>>>>
  /\ sel_diag = <<NotANumber, InvalidChoice>>
  /\ sel_ret = SAB

\* the list get_category_value receives for the category, categories[header]
Received == Lookup(sel_cats, sel_header)
Prompted ==
  sel_pc \in {"prompt", "returned"} /\ HasKey(sel_cats, sel_header) /\ Received.t = "list"
\* the options as printed: the i-th is numbered i and shows l[i]
Enumerates(l) ==
  /\ Len(sel_menu) = Len(l)
  /\ \A i \in 1..Len(l) : sel_menu[i] = <<i, l[i]>>
\* the number read last, when the selector returned on it
Chosen == NumberOf(sel_read[Len(sel_read)])

\* C15 as stated: the options are the list received for the category, in
\* its order and unchanged, and choice k returns its k-th element.
C15_MenuAsReceived ==
  Prompted =>
    /\ Enumerates(Received.v)
    /\ sel_pc = "returned" => sel_ret = Received.v[Chosen]

\* C15, amended: the options are the Flattener's output for the list
\* received, in that order and unchanged at every prompt, and choice k
\* returns its k-th element; they are the list as received when that list is
\* made of strings in strictly ascending order.
C15_MenuAsFlattened ==
  Prompted =>
    LET flat == flatten_categories(PyDict(<< <<sel_header, Received>> >>), <<>>, PyNone)
    IN /\ flat.exc = "none"
       /\ Enumerates(flat.val.v)
       /\ sel_pc = "returned" => sel_ret = flat.val.v[Chosen]
       /\ (/\ \A i \in 1..Len(Received.v) : Received.v[i].t = "str"
           /\ \A i \in 1..(Len(Received.v) - 1) :
                 PyLess(Received.v[i], Received.v[i + 1]))
            => Enumerates(Received.v)

\* ['b', 'a', ['a', 'b']] was shown as 1. a, 2. a.a, 3. a.b, 4. b after a
\* rejected line, and '2' returned 'a.a'
C15_Witness ==
  /\ sel_pc = "returned" /\ HasKey(sel_cats, sel_header)
  /\ Received = PyList(<<SB, SA, PyList(<<SA, SB>>)>>)
  /\ sel_menu = <<<<1, SA>>, <<2, PyStr(<<97, DOT, 97>>)>>, <<3, SAB>>, <<4, SB>>>>
  /\ sel_read = <<<<48>>, <<50>>>>
  /\ sel_ret = PyStr(<<97, DOT, 97>>)

-----------------------------------------------------------------------------
(* save_to_csv, with csv.writer and csv.reader                             *)

COMMA == 44
QUOTE == 34
CR == 13
LF == 10
\* the end of a line handed to the reader
EOL == 0

\* csv.writer's field: quoted when it holds the delimiter, the quote
\* character or a character of the line terminator, its quotes doubled
RECURSIVE DoubleQuotes(_)
DoubleQuotes(f) ==
  IF f = <<>> THEN <<>>
  ELSE (IF Head(f) = QUOTE THEN <<QUOTE, QUOTE>> ELSE <<Head(f)>>) \o DoubleQuotes(Tail(f))

WriteField(f) ==
  IF \E i \in 1..Len(f) : f[i] \in {COMMA, QUOTE, CR, LF}
  THEN <<QUOTE>> \o DoubleQuotes(f) \o <<QUOTE>>
  ELSE f

RECURSIVE JoinFields(_)
JoinFields(fields) ==
  IF Len(fields) = 1 THEN WriteField(fields[1])
  ELSE JoinFields(SubSeq(fields, 1, Len(fields) - 1)) \o <<COMMA>>
         \o WriteField(fields[Len(fields)])

\* writer.writerow(row): the fields, then '\r\n'
WriteRow(row) == JoinFields(row) \o <<CR, LF>>

\* csv.reader's parser: its state within a record, the field and the fields
\* read of it, and the records read
ReaderStart == [state |-> "START_RECORD", field |-> <<>>, fields |-> <<>>, rows |-> <<>>]

SaveField(r, state) ==
  [r EXCEPT !.fields = Append(r.fields, r.field), !.field = <<>>, !.state = state]
AddChar(r, c, state) == [r EXCEPT !.field = Append(r.field, c), !.state = state]
AfterLine(c) == IF c = EOL THEN "START_RECORD" ELSE "EAT_CRNL"

ReaderStartField(r, c) ==
  IF c \in {LF, CR, EOL} THEN SaveField(r, AfterLine(c))
  ELSE IF c = QUOTE THEN [r EXCEPT !.state = "IN_QUOTED_FIELD"]
  ELSE IF c = COMMA THEN SaveField(r, "START_FIELD")
  ELSE AddChar(r, c, "IN_FIELD")

\* one character, or the end of a line, in the parser
ReaderChar(r, c) ==
  CASE r.state = "START_RECORD" ->
         IF c = EOL THEN r
         ELSE IF c \in {LF, CR} THEN [r EXCEPT !.state = "EAT_CRNL"]
         ELSE ReaderStartField(r, c)
    [] r.state = "START_FIELD" -> ReaderStartField(r, c)
    [] r.state = "IN_FIELD" ->
         IF c \in {LF, CR, EOL} THEN SaveField(r, AfterLine(c))
         ELSE IF c = COMMA THEN SaveField(r, "START_FIELD")
         ELSE AddChar(r, c, "IN_FIELD")
    [] r.state = "IN_QUOTED_FIELD" ->
         IF c = EOL THEN r
         ELSE IF c = QUOTE THEN [r EXCEPT !.state = "QUOTE_IN_QUOTED_FIELD"]
         ELSE AddChar(r, c, "IN_QUOTED_FIELD")
    [] r.state = "QUOTE_IN_QUOTED_FIELD" ->
         IF c = QUOTE THEN AddChar(r, c, "IN_QUOTED_FIELD")
         ELSE IF c = COMMA THEN SaveField(r, "START_FIELD")
         ELSE IF c \in {LF, CR, EOL} THEN SaveField(r, AfterLine(c))
         ELSE AddChar(r, c, "IN_FIELD")
    [] OTHER ->
         IF c = EOL THEN [r EXCEPT !.state = "START_RECORD"] ELSE r

\* the characters of a line in order, the first half and then the second
RECURSIVE ReaderChars(_, _)
ReaderChars(r, line) ==
  IF line = <<>> THEN r
  ELSE IF Len(line) = 1 THEN ReaderChar(r, line[1])
  ELSE LET half == Len(line) \div 2
           first == ReaderChars(r, SubSeq(line, 1, half))
       IN IF first.state = "" THEN first
          ELSE ReaderChars(first, SubSeq(line, half + 1, Len(line)))

\* one line: its characters, then its end; a record is complete when the
\* parser is back at the start of one
ReaderLine(r, line) ==
  LET after == ReaderChar(ReaderChars(r, line), EOL)
  IN IF after.state = "START_RECORD"
     THEN [after EXCEPT !.rows = Append(after.rows, after.fields), !.fields = <<>>]
     ELSE after

RECURSIVE ReaderLines(_, _)
ReaderLines(r, lines) ==
  IF lines = <<>> THEN r
  ELSE LET next == ReaderLine(r, Head(lines))
       IN IF next.state = "" THEN next ELSE ReaderLines(next, Tail(lines))

\* list(csv.reader(lines)): at the end of the input a record left open in
\* a quoted field is returned as it stands
ReadRows(lines) ==
  LET r == ReaderLines(ReaderStart, lines)
  IN IF r.state = "START_RECORD" THEN r.rows
     ELSE Append(r.rows, Append(r.fields, r.field))

\* the lines of a file opened with newline='': each ends after '\n', or
\* after a '\r' that no '\n' follows, and keeps its ending
FileLines(content) ==
  LET n == Len(content)
      ends == {i \in 1..n : \/ content[i] = LF
                            \/ content[i] = CR /\ (i = n \/ content[i + 1] # LF)}
      stops == IF n > 0 THEN ends \cup {n} ELSE {}
      Stop(k) == CHOOSE e \in stops : Cardinality({x \in stops : x < e}) = k - 1
  IN [k \in 1..Cardinality(stops) |->
        SubSeq(content, IF k = 1 THEN 1 ELSE Stop(k - 1) + 1, Stop(k))]

\* list(csv.reader(f)) on the file
ReadCsv(content) == ReadRows(FileLines(content))

\* 'Timestamp'
TimestampHeader == <<84, 105, 109, 101, 115, 116, 97, 109, 112>>

\* datetime.now().strftime("%Y-%m-%d %H:%M:%S"), of which the model keeps
\* the seconds ':0s'
Timestamp(clock) == <<58, 48, 48 + clock>>

\* str.encode('utf-8') of the text a file opened for writing is given: a
\* character below 128 is one byte, one below 2048 is two
RECURSIVE EncodeChars(_)
EncodeChars(text) ==
  IF text = <<>> THEN <<>>
  ELSE (IF Head(text) < 128 THEN <<Head(text)>>
        ELSE <<192 + (Head(text) \div 64), 128 + (Head(text) % 64)>>)
         \o EncodeChars(Tail(text))

Encode(text) ==
  IF \A i \in 1..Len(text) : text[i] < 128 THEN text ELSE EncodeChars(text)

\* the character f.read(1) returns after f.seek(f.tell() - 1) in a file
\* opened with 'r': the file's last byte decoded on its own, a '\r' read as
\* '\n'; a byte of a longer UTF-8 sequence raises UnicodeDecodeError
LastCharRead(content) ==
  LET last == content[Len(content)]
  IN IF last >= 128 THEN [exc |-> "UnicodeDecodeError", ch |-> 0]
     ELSE [exc |-> "none", ch |-> IF last = CR THEN LF ELSE last]

\* save_to_csv with the header row written on every save
save_to_csv_HeaderAlways(file, headers, answers, timestamp) ==
  LET full_headers == <<TimestampHeader>> \o headers
      row == <<timestamp>> \o answers
      file_exists == file.exists
      last_char == IF file_exists /\ file.content # <<>>
                   THEN LastCharRead(file.content)
                   ELSE [exc |-> "none", ch |-> LF]
      repaired == IF last_char.ch # LF THEN file.content \o <<LF>> ELSE file.content
  IN IF last_char.exc # "none" THEN [exc |-> last_char.exc, file |-> file]
     ELSE [exc |-> "none",
           file |-> [exists |-> TRUE,
                     content |-> repaired \o Encode(WriteRow(full_headers))
                                   \o Encode(WriteRow(row))]]

\* save_to_csv with the header row written to an empty file as to an absent
\* one
save_to_csv_HeaderIfEmpty(file, headers, answers, timestamp) ==
  LET full_headers == <<TimestampHeader>> \o headers
      row == <<timestamp>> \o answers
      file_exists == file.exists
      last_char == IF file_exists /\ file.content # <<>>
                   THEN LastCharRead(file.content)
                   ELSE [exc |-> "none", ch |-> LF]
      repaired == IF last_char.ch # LF THEN file.content \o <<LF>> ELSE file.content
  IN IF last_char.exc # "none" THEN [exc |-> last_char.exc, file |-> file]
     ELSE [exc |-> "none",
           file |-> [exists |-> TRUE,
                     content |-> repaired
                                   \o (IF ~file_exists \/ file.content = <<>>
                                       THEN Encode(WriteRow(full_headers))
                                       ELSE <<>>)
                                   \o Encode(WriteRow(row))]]

\* save_to_csv(filename, headers, answers): what the call raised, and the
\* file after it
save_to_csv(file, headers, answers, timestamp) ==
  LET full_headers == <<TimestampHeader>> \o headers
      row == <<timestamp>> \o answers
      file_exists == file.exists
      last_char == IF file_exists /\ file.content # <<>>
                   THEN LastCharRead(file.content)
                   ELSE [exc |-> "none", ch |-> LF]
      repaired == IF last_char.ch # LF THEN file.content \o <<LF>> ELSE file.content
  IN IF last_char.exc # "none" THEN [exc |-> last_char.exc, file |-> file]
     ELSE [exc |-> "none",
           file |-> [exists |-> TRUE,
                     content |-> repaired
                                   \o (IF ~file_exists THEN Encode(WriteRow(full_headers))
                                       ELSE <<>>)
                                   \o Encode(WriteRow(row))]]

\* answers: 'x', '' and 'x,"'
Fields == {<<120>>, <<>>, <<120, COMMA, QUOTE>>}

\* the column names: ['A'] and ['A', 'B']
HeaderLists == {<< <<65>> >>, << <<65>>, <<66>> >>}

\* 'e' with an acute accent, the two bytes 0xC3 0xA9 in a file
EAcute == 233

\* the file before the first save: absent, empty, a header row without its
\* line ending, with '\r\n', with '\n' and with '\r', and a file whose last
\* row ends in a character of two bytes and has no line ending
FilesBefore(headers) ==
  LET header == JoinFields(<<TimestampHeader>> \o headers)
  IN {[exists |-> FALSE, content |-> <<>>],
      [exists |-> TRUE, content |-> <<>>],
      [exists |-> TRUE, content |-> header],
      [exists |-> TRUE, content |-> header \o <<CR, LF>>],
      [exists |-> TRUE, content |-> header \o <<LF>>],
      [exists |-> TRUE, content |-> header \o <<CR>>],
      [exists |-> TRUE, content |-> header \o <<LF>> \o Encode(<<EAcute>>)]}

InitSave ==
  /\ csv_headers \in HeaderLists
  /\ csv_file \in FilesBefore(csv_headers)
  /\ csv_absent = ~csv_file.exists
  /\ csv_clock = 0
  /\ csv_saved = <<>>
  /\ csv_exc = "none" /\ csv_prev = <<>>
  /\ FlIdle /\ LdIdle /\ SelIdle /\ ShowIdle /\ SesIdle

\* save_to_csv(args.csv_file, headers, answers), at the same second as the
\* save before it or a second later
\* an exception ends the run
Save ==
  /\ Len(csv_saved) < MaxSaves /\ csv_exc = "none"
  /\ \E answers \in [1..Len(csv_headers) -> Fields], tick \in {0, 1} :
       LET timestamp == Timestamp(csv_clock + tick)
           saved == save_to_csv(csv_file, csv_headers, answers, timestamp)
       IN /\ csv_file' = saved.file
          /\ csv_exc' = saved.exc
          /\ csv_prev' = <<csv_file>>
          /\ csv_saved' = IF saved.exc = "none"
                          THEN Append(csv_saved, <<timestamp>> \o answers)
                          ELSE csv_saved
          /\ csv_clock' = csv_clock + tick
  /\ UNCHANGED <<csv_headers, csv_absent, flVars, ldVars, selVars, showVars, sesVars>>

NextSave == Save

SpecSave == InitSave /\ [][NextSave]_vars

\* C10: after n >= 1 saves with the same headers to a file that was absent
\* before the first, the file reads as the row ['Timestamp'] + headers and
\* then the n saved rows in the order of the saves, each a timestamp and
\* that save's answers; so the rows read after a save begin with the rows
\* read before it.
C10_HeaderOnce ==
  (csv_absent /\ csv_saved # <<>>) =>
    /\ csv_file.exists
    /\ ReadCsv(csv_file.content) = << <<TimestampHeader>> \o csv_headers >> \o csv_saved

\* two rows were saved to a file that was absent, one with a quoted field
C10_Witness ==
  /\ csv_absent /\ Len(csv_saved) = 2
  /\ csv_saved[1][2] = <<120, COMMA, QUOTE>> /\ csv_saved[2][2] = <<>>
  /\ Len(ReadCsv(csv_file.content)) = 3

\* the file ends with a newline as a file opened with 'r' reads it: '\n',
\* or a '\r' of its own
EndsWithNewline(content) == content # <<>> /\ content[Len(content)] \in {LF, CR}

\* C11: a save to an existing non-empty file that does not end with a
\* newline adds exactly one newline and then the row, the bytes before it
\* kept; a save to a file that ends with a newline adds the row alone; and
\* after every save the file ends with a newline.
C11_NewlineRepair ==
  csv_prev # <<>> =>
    LET before == csv_prev[1].content
        row == Encode(WriteRow(csv_saved[Len(csv_saved)]))
    IN /\ csv_exc = "none"
       /\ EndsWithNewline(csv_file.content)
       /\ (csv_prev[1].exists /\ before # <<>> /\ ~EndsWithNewline(before))
            => csv_file.content = before \o <<LF>> \o row
       /\ EndsWithNewline(before) => csv_file.content = before \o row

-----------------------------------------------------------------------------
(* show_entries                                                            *)

\* most lines of a file handed to show_entries
MaxRows == 3

\* whether the bytes are UTF-8, of characters of one byte and of two (a lead
\* byte 0xC2 to 0xDF and one continuation byte); the files of the model hold
\* no longer characters
ValidUtf8(bytes) ==
  \A i \in 1..Len(bytes) :
    \/ bytes[i] < 128
    \/ bytes[i] \in 194..223 /\ i < Len(bytes) /\ bytes[i + 1] \in 128..191
    \/ bytes[i] \in 128..191 /\ i > 1 /\ bytes[i - 1] \in 194..223

RECURSIVE DecodeChars(_)
DecodeChars(bytes) ==
  IF bytes = <<>> THEN <<>>
  ELSE IF Head(bytes) < 128 THEN <<Head(bytes)>> \o DecodeChars(Tail(bytes))
  ELSE <<(bytes[1] - 192) * 64 + (bytes[2] - 128)>> \o DecodeChars(Tail(Tail(bytes)))

\* csvfile.read() of a file opened with 'r': the text, or UnicodeDecodeError
Decode(bytes) ==
  IF \A i \in 1..Len(bytes) : bytes[i] < 128 THEN [exc |-> "none", text |-> bytes]
  ELSE IF ValidUtf8(bytes) THEN [exc |-> "none", text |-> DecodeChars(bytes)]
  ELSE [exc |-> "UnicodeDecodeError", text |-> <<>>]

\* the characters str.strip() removes, below 2048
IsSpace(c) == c \in {9, 10, 11, 12, 13, 28, 29, 30, 31, 32, 133, 160}

\* content.strip() is ''
StripsToEmpty(text) == \A i \in 1..Len(text) : IsSpace(text[i])

\* the characters str.splitlines() breaks a line at, below 2048
IsLineBreak(c) == c \in {10, 11, 12, 13, 28, 29, 30, 133}

\* content.splitlines(): the lines without their endings, '\r\n' one ending
SplitLines(text) ==
  LET n == Len(text)
      ends == {i \in 1..n : /\ IsLineBreak(text[i])
                            /\ ~(text[i] = CR /\ i < n /\ text[i + 1] = LF)}
      stops == IF n > 0 THEN ends \cup {n} ELSE {}
      Stop(k) == CHOOSE e \in stops : Cardinality({x \in stops : x < e}) = k - 1
      First(k) == IF k = 1 THEN 1 ELSE Stop(k - 1) + 1
      Last(k) ==
        LET e == Stop(k)
        IN IF e \notin ends THEN e
           ELSE IF text[e] = LF /\ e > First(k) /\ text[e - 1] = CR THEN e - 2
           ELSE e - 1
  IN [k \in 1..Cardinality(stops) |-> SubSeq(text, First(k), Last(k))]

FileAbsent == "Error: File does not exist"
FileEmpty == "Error: CSV file is empty"
NoHeaders == "Error: Invalid CSV format - no headers found"
Inconsistent == "Error: Invalid CSV format - inconsistent number of columns"
InvalidCsv == "Error: Invalid CSV format"
NoEntries == "No entries found in the file."
ReadError == "Error reading file"
EntriesFrom == "Entries from"
Table == "table"
TotalEntries == "Total entries"

\* what a call printed: a diagnostic alone
Diagnostic(msg) == [printed |-> <<msg>>, headers |-> <<>>, data |-> <<>>, total |-> 0]

\* show_entries with the rows taken as they are, whatever their length
show_entries_AnyColumns(file) ==
  IF ~file.exists THEN Diagnostic(FileAbsent)
  ELSE LET content == Decode(file.content)
           rows == ReadRows(SplitLines(content.text))
       IN IF content.exc # "none" THEN Diagnostic(ReadError)
          ELSE IF StripsToEmpty(content.text) THEN Diagnostic(FileEmpty)
          ELSE IF rows = <<>> THEN Diagnostic(InvalidCsv)
          ELSE IF rows[1] = <<>> THEN Diagnostic(NoHeaders)
          ELSE IF Len(rows) = 1 THEN Diagnostic(NoEntries)
          ELSE [printed |-> <<EntriesFrom, Table, TotalEntries>>,
                headers |-> rows[1], data |-> Tail(rows), total |-> Len(rows) - 1]

\* show_entries(filename): what it prints; tabulate() is given the headers
\* and the data rows
show_entries(file) ==
  IF ~file.exists THEN Diagnostic(FileAbsent)
  ELSE LET content == Decode(file.content)
           rows == ReadRows(SplitLines(content.text))
           headers == rows[1]
           header_count == Len(headers)
           data == Tail(rows)
       IN IF content.exc # "none" THEN Diagnostic(ReadError)
          ELSE IF StripsToEmpty(content.text) THEN Diagnostic(FileEmpty)
          ELSE IF rows = <<>> THEN Diagnostic(InvalidCsv)
          ELSE IF headers = <<>> THEN Diagnostic(NoHeaders)
          ELSE IF \E i \in 1..Len(data) : Len(data[i]) # header_count
          THEN Diagnostic(Inconsistent)
          ELSE IF data = <<>> THEN Diagnostic(NoEntries)
          ELSE [printed |-> <<EntriesFrom, Table, TotalEntries>>,
                headers |-> headers, data |-> data, total |-> Len(data)]

\* the lines of the files shown: 'A,B', '1,2', '1', '', ' ', '"x,""",y',
\* a cell of a two-byte character, and an opening quote that is not closed
ShowLines ==
  {<<65, COMMA, 66>>, <<49, COMMA, 50>>, <<49>>, <<>>, <<32>>,
   <<QUOTE, 120, COMMA, QUOTE, QUOTE, QUOTE, COMMA, 121>>,
   Encode(<<EAcute>>) \o <<COMMA, 50>>, <<QUOTE, 120>>}

LineEndings == {<<CR, LF>>, <<LF>>}

RECURSIVE JoinLines(_, _)
JoinLines(lines, ending) ==
  IF Len(lines) = 1 THEN lines[1]
  ELSE JoinLines(SubSeq(lines, 1, Len(lines) - 1), ending) \o ending \o lines[Len(lines)]

\* the files: absent, empty, one to MaxRows lines with one kind of line
\* ending and the last line with or without it, and a file in Latin-1 whose
\* byte 0xE9 is no UTF-8
ShowFiles ==
  {[exists |-> FALSE, content |-> <<>>], [exists |-> TRUE, content |-> <<>>],
   [exists |-> TRUE, content |-> <<65, COMMA, 66, LF, EAcute, COMMA, 49, LF>>]}
  \cup {[exists |-> TRUE, content |-> JoinLines(lines, ending) \o last] :
          lines \in SeqsUpTo(ShowLines, MaxRows) \ {<<>>},
          ending \in LineEndings, last \in {<<>>, <<CR, LF>>}}

InitShow ==
  /\ csv_file \in ShowFiles
  /\ csv_headers = <<>> /\ csv_clock = 0 /\ csv_absent = ~csv_file.exists
  /\ csv_saved = <<>> /\ csv_exc = "none" /\ csv_prev = <<>>
  /\ show_pc = "call" /\ show_out = NoShow
  /\ FlIdle /\ LdIdle /\ SelIdle /\ SesIdle

\* show_entries(args.csv_file)
Show ==
  /\ show_pc = "call"
  /\ show_out' = show_entries(csv_file)
  /\ show_pc' = "done"
  /\ UNCHANGED <<flVars, ldVars, selVars, csvVars, sesVars>>

NextShow == Show

SpecShow == InitShow /\ [][NextShow]_vars

\* The two commands on one file: entries are saved, and `show` is run once,
\* before, between or after the saves.
InitSaveShow ==
  /\ csv_headers \in HeaderLists
  /\ csv_file \in FilesBefore(csv_headers)
  /\ csv_absent = ~csv_file.exists
  /\ csv_clock = 0
  /\ csv_saved = <<>>
  /\ csv_exc = "none" /\ csv_prev = <<>>
  /\ show_pc = "call" /\ show_out = NoShow
  /\ FlIdle /\ LdIdle /\ SelIdle /\ SesIdle

NextSaveShow == Save \/ Show

SpecSaveShow == InitSaveShow /\ [][NextSaveShow]_vars

\* the file that exists and has no content
EmptyFile == [exists |-> TRUE, content |-> <<>>]
\* the rows csv.reader gives for a file
RowsOf(file) == ReadCsv(Decode(file.content).text)

\* what a save, and a show after the first save, may do
SaveShowStep ==
     LET saving == csv_saved' # csv_saved
         row == csv_saved'[Len(csv_saved')]
         showing == show_pc = "call" /\ show_pc' = "done"
     IN /\ saving =>
             /\ csv_file'.exists
             /\ RowsOf(csv_file') =
                  (IF csv_file.exists THEN RowsOf(csv_file)
                   ELSE << <<TimestampHeader>> \o csv_headers >>) \o <<row>>
             /\ csv_file = EmptyFile => csv_file'.content = Encode(WriteRow(row))
        /\ (showing /\ csv_prev = <<EmptyFile>>) =>
             /\ RowsOf(csv_file) = csv_saved /\ Len(csv_saved) = 1
             /\ show_out' = Diagnostic(NoEntries)
        /\ (showing /\ csv_prev = <<[exists |-> FALSE, content |-> <<>>]>>) =>
             /\ show_out'.headers = <<TimestampHeader>> \o csv_headers
             /\ show_out'.data = csv_saved /\ show_out'.total = 1

\* C23: whether save_to_csv writes the header row depends on the file's
\* existence alone. A save to an absent file leaves the header row and the
\* data row; a save to a file that exists adds the data row to the rows it
\* had, so an existing file of zero length then holds the data row alone,
\* and show_entries on it takes that row for the header and reports 'No
\* entries found', where after a save to an absent file it shows one entry.
C23_EmptyFileNoHeader == [][SaveShowStep]_vars

\* ':00,x' alone was saved to the empty file, and show reported no entries
C23_Witness ==
  /\ csv_prev = <<EmptyFile>> /\ csv_headers = << <<65>> >>
  /\ csv_saved = << <<Timestamp(0), <<120>> >> >>
  /\ csv_file.content = Timestamp(0) \o <<COMMA, 120, CR, LF>>
  /\ show_pc = "done" /\ show_out = Diagnostic(NoEntries)

\* the rows csv.reader gives for the lines of the file
ShownRows == ReadRows(SplitLines(Decode(csv_file.content).text))

\* the case a file is in, by its content
ShowCase ==
  IF ~csv_file.exists THEN "absent"
  ELSE IF Decode(csv_file.content).exc # "none" THEN "unreadable"
  ELSE IF StripsToEmpty(Decode(csv_file.content).text) THEN "empty"
  ELSE IF ShownRows[1] = <<>> THEN "no header"
  ELSE IF \E i \in 2..Len(ShownRows) : Len(ShownRows[i]) # Len(ShownRows[1])
  THEN "columns differ"
  ELSE IF Len(ShownRows) = 1 THEN "header only"
  ELSE "entries"

\* the table of the file's rows, with their number
Tabulated ==
  [printed |-> <<EntriesFrom, Table, TotalEntries>>,
   headers |-> ShownRows[1], data |-> Tail(ShownRows), total |-> Len(ShownRows) - 1]

-----------------------------------------------------------------------------
(* The entry session: main's write command, with get_headers,              *)
(* get_user_input and edit_answers.  Every action is one line read from    *)
(* stdin and what the program does until it waits for the next one.        *)

\* most lines one session reads
MaxSteps == 6

\* ["Amount", "Category", "Account"]
DefaultHeaders ==
  <<<<65, 109, 111, 117, 110, 116>>, <<67, 97, 116, 101, 103, 111, 114, 121>>,
    <<65, 99, 99, 111, 117, 110, 116>>>>

\* get_headers(filename): the first row of the file without its first
\* column, or the default headers when the file is absent, holds no row or
\* the row has no second column; a file that does not decode raises
get_headers(file) ==
  IF ~file.exists THEN [exc |-> "none", val |-> DefaultHeaders]
  ELSE LET content == Decode(file.content)
           rows == ReadCsv(content.text)
           headers == IF rows = <<>> THEN <<>> ELSE Tail(rows[1])
       IN IF content.exc # "none" THEN [exc |-> content.exc, val |-> <<>>]
          ELSE IF rows = <<>> \/ rows[1] = <<>> \/ headers = <<>>
          THEN [exc |-> "none", val |-> DefaultHeaders]
          ELSE [exc |-> "none", val |-> headers]

\* PromptFor with the selector used for every field, on the options of all
\* categories when the field has none
PromptFor_AlwaysSelect(header, categories) ==
  IF HasKey(categories, PyStr(header))
  THEN [select |-> TRUE,
        flat |-> flatten_categories(
                   PyDict(<< <<PyStr(header), Lookup(categories, PyStr(header))>> >>),
                   <<>>, PyNone).val.v]
  ELSE [select |-> TRUE, flat |-> flatten_categories(categories, <<>>, PyNone).val.v]

\* How a field's value is asked for: `if header in categories` of
\* get_user_input, and get_category_value returning None in edit_answers;
\* with the selector, the options it shows
PromptFor(header, categories) ==
  IF HasKey(categories, PyStr(header))
  THEN [select |-> TRUE,
        flat |-> flatten_categories(
                   PyDict(<< <<PyStr(header), Lookup(categories, PyStr(header))>> >>),
                   <<>>, PyNone).val.v]
  ELSE [select |-> FALSE, flat |-> <<>>]

\* SetAnswer with the new value put after the answers
SetAnswer_Appended(answers, choice, value) == Append(answers, value)

\* answers[choice-1] = value
SetAnswer(answers, choice, value) == [answers EXCEPT ![choice] = value]

\* str.lower() on ASCII
Lower(line) == [i \in 1..Len(line) |-> IF line[i] \in 65..90 THEN line[i] + 32 ELSE line[i]]

Welcome == "Welcome to the questionnaire!"
Question == "What is your ...?"
SelectHeader == "Select ...:"
Options == "Available options for ...:"
Summary == "Summary of your responses:"
WhatNext == "What would you like to do?"
WhichField == "Which field would you like to edit?"
NewValue == "Enter new value for ...:"
Saved == "Responses have been saved to ..."
Cancelled == "Entry cancelled. No data was saved."
AnotherEntry == "Would you like to enter a new entry? (y/n):"

\* What waits for the value of field k: the selector with its options, or a
\* question for free text.
AskField(k, editing) ==
  LET prompt == PromptFor(csv_headers[k], ses_cats)
  IN IF prompt.select
     THEN [pc |-> IF editing THEN "edit_select" ELSE "select", flat |-> prompt.flat,
           out |-> IF editing THEN <<Options>> ELSE <<SelectHeader, Options>>]
     ELSE [pc |-> IF editing THEN "edit_text" ELSE "input", flat |-> <<>>,
           out |-> IF editing THEN <<NewValue>> ELSE <<Question>>]

\* the lines typed as free text: 'x' and ''
TextLines == {<<120>>, <<>>}
\* at the selector: '1', '2', '0' and 'abc'
OrdinalLines == {<<49>>, <<50>>, <<48>>, <<97, 98, 99>>}
\* at the menu: '1' to '5' and ' 2'
MenuLines == {<<49>>, <<50>>, <<51>>, <<52>>, <<53>>, <<32, 50>>}
\* at the edit menu: '0', '1', '2', '4', 'abc' and '-1'
EditLines == {<<48>>, <<49>>, <<50>>, <<52>>, <<97, 98, 99>>, <<45, 49>>}
\* after a cancel: 'y', 'Y', 'n' and ''
ConfirmLines == {<<121>>, <<89>>, <<110>>, <<>>}

\* the CSV file at the start: absent, a header row of the columns C and A, a
\* header row of the column C without its line ending, and a file of the
\* column A whose last row ends in a two-byte character and has no line
\* ending
SesFiles ==
  {[exists |-> FALSE, content |-> <<>>],
   [exists |-> TRUE, content |-> TimestampHeader \o <<COMMA, 67, COMMA, 65, CR, LF>>],
   [exists |-> TRUE, content |-> TimestampHeader \o <<COMMA, 67>>],
   [exists |-> TRUE,
    content |-> TimestampHeader \o <<COMMA, 65, LF, 58, 48, 48, COMMA>> \o Encode(<<EAcute>>)]}

\* the category file: absent, or C: [b, {a: [b]}] and Category: [b, a], or
\* C: [{1: null}], a sequence whose one element is a key that is a number
SesCatFiles ==
  {CatFile(FALSE, FALSE, PyNone),
   CatFile(TRUE, TRUE,
           PyDict(<< <<KeyC, PyList(<<SB, PyDict(<< <<SA, PyList(<<SB>>)>> >>)>>)>>,
                     <<PyStr(DefaultHeaders[2]), PyList(<<SB, SA>>)>> >>)),
   CatFile(TRUE, TRUE, OneCategory(PyList(<<PyDict(<< <<PyInt(1), PyNone>> >>)>>)))}

\* main up to the first prompt: the headers, the categories, and the first
\* field of the first entry asked for
InitSession ==
  /\ csv_file \in SesFiles
  /\ csv_headers = get_headers(csv_file).val
  /\ csv_absent = ~csv_file.exists
  /\ csv_clock = 0 /\ csv_saved = <<>> /\ csv_exc = "none" /\ csv_prev = <<>>
  /\ \E file \in SesCatFiles : ses_cats = load_categories(file).val
  /\ ses_answers = <<>> /\ ses_field = 1
  /\ ses_pc = AskField(1, FALSE).pc
  /\ ses_flat = AskField(1, FALSE).flat
  /\ ses_out = <<Welcome>> \o AskField(1, FALSE).out
  /\ ses_line = <<>> /\ ses_last = [pc |-> "start", field |-> 0]
  /\ ses_steps = 0
  /\ FlIdle /\ LdIdle /\ SelIdle /\ ShowIdle

\* a line is read at the prompt the session waits at
Reads(line) ==
  /\ ses_steps < MaxSteps
  /\ ses_steps' = ses_steps + 1
  /\ ses_line' = line
  /\ ses_last' = [pc |-> ses_pc, field |-> ses_field]

\* get_user_input: answers.append(value), then the next field is asked for,
\* or the summary and the menu follow the last one
Answered(value) ==
  /\ ses_answers' = Append(ses_answers, value)
  /\ IF ses_field < Len(csv_headers)
     THEN /\ ses_field' = ses_field + 1
          /\ ses_pc' = AskField(ses_field + 1, FALSE).pc
          /\ ses_flat' = AskField(ses_field + 1, FALSE).flat
          /\ ses_out' = AskField(ses_field + 1, FALSE).out
     ELSE /\ ses_field' = 0
          /\ ses_pc' = "menu" /\ ses_flat' = <<>>
          /\ ses_out' = <<Summary, WhatNext>>

\* the outer loop of main starts the next entry
NewEntry(printed) ==
  /\ ses_answers' = <<>> /\ ses_field' = 1
  /\ ses_pc' = AskField(1, FALSE).pc
  /\ ses_flat' = AskField(1, FALSE).flat
  /\ ses_out' = printed \o <<Welcome>> \o AskField(1, FALSE).out

\* answer = input(f"{question} ")
InputText ==
  /\ ses_pc = "input"
  /\ \E line \in TextLines : Reads(line) /\ Answered(line)
  /\ UNCHANGED <<ses_cats, flVars, ldVars, selVars, csvVars, showVars>>

\* value = get_category_value(header, categories): one pass of its loop
InputSelect ==
  /\ ses_pc = "select"
  /\ \E line \in OrdinalLines :
       LET step == SelectorStep(ses_flat, line)
       IN /\ Reads(line)
          /\ IF step.returns THEN Answered(step.value.v)
             ELSE /\ ses_out' = <<step.diag, Options>>
                  /\ UNCHANGED <<ses_pc, ses_answers, ses_field, ses_flat>>
  /\ UNCHANGED <<ses_cats, flVars, ldVars, selVars, csvVars, showVars>>

\* choice == "1": edit_answers starts
MenuEdit ==
  /\ ses_pc = "menu"
  /\ Reads(<<49>>)
  /\ ses_pc' = "edit" /\ ses_out' = <<WhichField>>
  /\ UNCHANGED <<ses_cats, ses_answers, ses_field, ses_flat,
                 flVars, ldVars, selVars, csvVars, showVars>>

\* choice == "2" and choice == "3": save_to_csv(args.csv_file, headers,
\* answers), then the next entry or the end; an exception ends the program
MenuSave ==
  /\ ses_pc = "menu"
  /\ \E line \in {<<50>>, <<51>>}, tick \in {0, 1} :
       LET timestamp == Timestamp(csv_clock + tick)
           saved == save_to_csv(csv_file, csv_headers, ses_answers, timestamp)
       IN /\ Reads(line)
          /\ csv_file' = saved.file
          /\ csv_exc' = saved.exc
          /\ csv_prev' = <<csv_file>>
          /\ csv_clock' = csv_clock + tick
          /\ IF saved.exc # "none"
             THEN /\ ses_pc' = "crashed" /\ ses_out' = <<>>
                  /\ UNCHANGED <<csv_saved, ses_answers, ses_field, ses_flat>>
             ELSE /\ csv_saved' = Append(csv_saved, <<timestamp>> \o ses_answers)
                  /\ IF line = <<50>> THEN NewEntry(<<Saved>>)
                     ELSE /\ ses_pc' = "exit" /\ ses_out' = <<Saved>>
                          /\ UNCHANGED <<ses_answers, ses_field, ses_flat>>
  /\ UNCHANGED <<ses_cats, csv_headers, csv_absent, flVars, ldVars, selVars, showVars>>

\* choice == "4": the entry is cancelled, and the program asks whether to
\* go on
MenuCancel ==
  /\ ses_pc = "menu"
  /\ Reads(<<52>>)
  /\ ses_pc' = "confirm" /\ ses_out' = <<Cancelled, AnotherEntry>>
  /\ UNCHANGED <<ses_cats, ses_answers, ses_field, ses_flat,
                 flVars, ldVars, selVars, csvVars, showVars>>

\* any other choice
MenuInvalid ==
  /\ ses_pc = "menu"
  /\ \E line \in MenuLines \ {<<49>>, <<50>>, <<51>>, <<52>>} : Reads(line)
  /\ ses_out' = <<InvalidChoice, WhatNext>>
  /\ UNCHANGED <<ses_pc, ses_cats, ses_answers, ses_field, ses_flat,
                 flVars, ldVars, selVars, csvVars, showVars>>

\* input("Would you like to enter a new entry? (y/n): ").lower() != 'y'
Confirm ==
  /\ ses_pc = "confirm"
  /\ \E line \in ConfirmLines :
       /\ Reads(line)
       /\ IF Lower(line) # <<121>>
          THEN /\ ses_pc' = "exit" /\ ses_out' = <<>>
               /\ UNCHANGED <<ses_answers, ses_field, ses_flat>>
          ELSE NewEntry(<<>>)
  /\ UNCHANGED <<ses_cats, flVars, ldVars, selVars, csvVars, showVars>>

\* edit_answers: choice = int(input(...)) and what follows it
EditChoice ==
  /\ ses_pc = "edit"
  /\ \E line \in EditLines :
       LET choice == ParseInt(line)
       IN /\ Reads(line)
          /\ IF ~choice.ok
             THEN /\ ses_out' = <<NotANumber, WhichField>>
                  /\ UNCHANGED <<ses_pc, ses_field, ses_flat>>
             ELSE IF choice.val = 0
             THEN /\ ses_pc' = "menu" /\ ses_out' = <<WhatNext>>
                  /\ UNCHANGED <<ses_field, ses_flat>>
             ELSE IF 1 <= choice.val /\ choice.val <= Len(csv_headers)
             THEN /\ ses_field' = choice.val
                  /\ ses_pc' = AskField(choice.val, TRUE).pc
                  /\ ses_flat' = AskField(choice.val, TRUE).flat
                  /\ ses_out' = AskField(choice.val, TRUE).out
             ELSE /\ ses_out' = <<InvalidChoice, WhichField>>
                  /\ UNCHANGED <<ses_pc, ses_field, ses_flat>>
  /\ UNCHANGED <<ses_cats, ses_answers, flVars, ldVars, selVars, csvVars, showVars>>

\* new_value = input(f"Enter new value for {header}: ")
EditText ==
  /\ ses_pc = "edit_text"
  /\ \E line \in TextLines :
       /\ Reads(line)
       /\ ses_answers' = SetAnswer(ses_answers, ses_field, line)
  /\ ses_pc' = "edit" /\ ses_out' = <<Summary, WhichField>>
  /\ UNCHANGED <<ses_cats, ses_field, ses_flat, flVars, ldVars, selVars, csvVars, showVars>>

\* category_value = get_category_value(header, categories): one pass of its
\* loop
EditSelect ==
  /\ ses_pc = "edit_select"
  /\ \E line \in OrdinalLines :
       LET step == SelectorStep(ses_flat, line)
       IN /\ Reads(line)
          /\ IF step.returns
             THEN /\ ses_answers' = SetAnswer(ses_answers, ses_field, step.value.v)
                  /\ ses_pc' = "edit" /\ ses_out' = <<Summary, WhichField>>
             ELSE /\ ses_out' = <<step.diag, Options>>
                  /\ UNCHANGED <<ses_pc, ses_answers>>
  /\ UNCHANGED <<ses_cats, ses_field, ses_flat, flVars, ldVars, selVars, csvVars, showVars>>

NextSession ==
  \/ InputText \/ InputSelect
  \/ MenuEdit \/ MenuSave \/ MenuCancel \/ MenuInvalid \/ Confirm
  \/ EditChoice \/ EditText \/ EditSelect

SpecSession == InitSession /\ [][NextSession]_vars

\* the session waits for the value of a field, or read its last line as one
AtField == ses_pc \in {"input", "select", "edit_text", "edit_select"}
ReadAtField == ses_last.pc \in {"input", "select", "edit_text", "edit_select"}
\* the field's header has an entry in the categories
HasCategory(k) == HasKey(ses_cats, PyStr(csv_headers[k]))

\* C16: for a field whose header has no category, the session waits for
\* free text and not at the selector, no options are shown, in
\* get_user_input and in edit_answers alike; and the line read for such a
\* field was read as free text and is the field's answer.
C16_NoSelectorWithoutCategory ==
  /\ (AtField /\ ~HasCategory(ses_field)) =>
       /\ ses_pc \in {"input", "edit_text"}
       /\ ses_flat = <<>>
       /\ Options \notin PySet(ses_out)
  /\ (ReadAtField /\ ~HasCategory(ses_last.field)) =>
       /\ ses_last.pc \in {"input", "edit_text"}
       /\ Len(ses_answers) >= ses_last.field
       /\ ses_answers[ses_last.field] = ses_line

\* with the columns C and A and a category list for C alone, the answer for
\* A was edited: one line of free text replaced it
C16_Witness ==
  /\ ses_pc = "edit" /\ ses_last = [pc |-> "edit_text", field |-> 2]
  /\ HasCategory(1) /\ ~HasCategory(2)
  /\ ses_line = <<120>> /\ ses_answers[2] = <<120>>
  /\ Summary \in PySet(ses_out)

\* the session waits at the selector
AtSelector == ses_pc \in {"select", "edit_select"}

\* C22: every category list load_categories returned is non-empty, and
\* each time the session waits at the selector the option list is
\* non-empty and some line is an in-range choice, one that makes the
\* selector return.
C22_SelectorCanBeLeft ==
  /\ \A i \in 1..Len(ses_cats.v) : ses_cats.v[i][2].v # <<>>
  /\ AtSelector =>
       /\ ses_flat # <<>>
       /\ \E line \in OrdinalLines : SelectorStep(ses_flat, line).returns

\* what a step of the session may do to the file
FileStep ==
     LET saving == ses_pc = "menu" /\ ses_line' \in {<<50>>, <<51>>}
         before == IF csv_file.exists THEN ReadCsv(Decode(csv_file.content).text)
                   ELSE << <<TimestampHeader>> \o csv_headers >>
     IN /\ csv_file' # csv_file => saving
        /\ ~saving => csv_saved' = csv_saved
        /\ saving =>
             /\ csv_exc' = "none"
             /\ Len(csv_saved') = Len(csv_saved) + 1
             /\ Tail(csv_saved'[Len(csv_saved')]) = ses_answers
             /\ ReadCsv(Decode(csv_file'.content).text)
                  = before \o <<csv_saved'[Len(csv_saved')]>>

\* C19: the file changes only in a step that reads '2' or '3' at the menu;
\* such a step saves exactly one more row, the current answers after a
\* timestamp, and the file then reads as what it read before (the header row
\* first when it was absent) and that row; every other line at the menu
\* leaves the file as it is.
C19_SaveOnlyOnChoice == [][FileStep]_vars

\* the number a line at the edit menu stands for, when it is one
EditNumber(line, n) == IsNumber(line) /\ NumberOf(line) = n

\* what a step taken inside edit_answers may change
EditStep ==
     ses_pc \in {"edit", "edit_text", "edit_select"} =>
       /\ Len(ses_answers') = Len(ses_answers)
       /\ \A j \in 1..Len(ses_answers) : j # ses_field' => ses_answers'[j] = ses_answers[j]
       /\ ses_pc = "edit" =>
            /\ ses_answers' = ses_answers
            /\ (\A n \in 0..Len(csv_headers) : ~EditNumber(ses_line', n)) =>
                 /\ ses_pc' = "edit"
                 /\ ses_out' = <<IF IsNumber(ses_line') THEN InvalidChoice ELSE NotANumber,
                                 WhichField>>
            /\ EditNumber(ses_line', 0) => ses_pc' = "menu"
            /\ \A k \in 1..Len(csv_headers) :
                 EditNumber(ses_line', k) =>
                   ses_field' = k /\ ses_pc' \in {"edit_text", "edit_select"}
       /\ ses_pc = "edit_text" =>
            /\ ses_answers' = [ses_answers EXCEPT ![ses_field] = ses_line']
            /\ ses_pc' = "edit"
       /\ ses_pc = "edit_select" =>
            IF \E k \in 1..Len(ses_flat) : EditNumber(ses_line', k)
            THEN /\ ses_answers' = [ses_answers EXCEPT
                                      ![ses_field] = ses_flat[NumberOf(ses_line')].v]
                 /\ ses_pc' = "edit"
            ELSE ses_answers' = ses_answers /\ ses_pc' = "edit_select"

\* C20: a step of edit_answers keeps the number of answers and every
\* answer but the chosen field's.  At its menu, a line that is no number, or
\* a number outside 0..len(headers), changes nothing and asks again; 0 ends
\* the editing with the answers as they are; k in 1..len(headers) chooses
\* field k.  The value then read, or selected, replaces answers[k-1].
C20_EditFrame == [][EditStep]_vars

\* with the columns C and A, 'b' was selected for C and then replaced in
\* the editing by the option 2, 'a.b'; the answer for A stayed 'x'
C20_Witness ==
  /\ ses_pc = "edit" /\ ses_last = [pc |-> "edit_select", field |-> 1]
  /\ ses_line = <<50>>
  /\ ses_answers = <<<<97, DOT, 98>>, <<120>>>>

-----------------------------------------------------------------------------
(* Claims about flatten_categories.                                        *)

\* the call was made with one category whose value is a list
OneList == fl_dict.t = "dict" /\ Len(fl_dict.v) = 1 /\ fl_dict.v[1][2].t = "list"
TheValues == fl_dict.v[1][2].v
Returned == fl_pc # "call" /\ fl_out.exc = "none"
OutSet == PySet(fl_out.val.v)

Join(parent, child) == PyStr(parent.v \o <<DOT>> \o Format(child))

\* The entry appended last by the first n elements of values, PyNone when
\* none was: a string is its own entry (under the prefix when it has no
\* '.'), a sublist with children and a parent leaves its last child's path.
RECURSIVE LastEntry(_, _, _)
LastEntry(values, prefix, n) ==
  IF n = 0 THEN PyNone
  ELSE LET item == values[n]
           before == LastEntry(values, prefix, n - 1)
       IN IF item.t = "str"
          THEN (IF HasDot(item.v) \/ prefix = <<>> THEN item
                ELSE PyStr(prefix \o <<DOT>> \o item.v))
          ELSE IF item.t = "list" /\ before # PyNone /\ item.v # <<>>
          THEN Join(before, item.v[Len(item.v)])
          ELSE before

\* C1: on one category, every element that is a list is the children of the
\* entry appended immediately before it: the call returns, and the output
\* holds '<that entry>.<child>' for each child.
C1_AdjacencyAttachment ==
  (fl_pc # "call" /\ OneList) =>
    /\ fl_out.exc = "none"
    /\ \A i \in 1..Len(TheValues) :
         LET before == LastEntry(TheValues, fl_prefix, i - 1)
         IN (TheValues[i].t = "list" /\ before # PyNone) =>
              \A k \in 1..Len(TheValues[i].v) :
                Join(before, TheValues[i].v[k]) \in OutSet

\* ['a', ['a', 'b']] gave ['a', 'a.a', 'a.b']
C1_Witness ==
  /\ fl_pc = "done" /\ fl_prefix = <<>>
  /\ fl_dict = OneCategory(PyList(<<SA, PyList(<<SA, SB>>)>>))
  /\ fl_out = Ok(PyList(<<SA, PyStr(<<97, DOT, 97>>), SAB>>))

\* C5: on one category whose list starts with a sublist, the sublist's
\* children are dropped: the output is that of the list without it, and
\* [['a', 'b']] alone gives [].
C5_OrphanSublistDropped ==
  (fl_pc # "call" /\ OneList /\ TheValues # <<>> /\ TheValues[1].t = "list") =>
    /\ fl_out = flatten_categories(OneCategory(PyList(Tail(TheValues))), fl_prefix, PyNone)
    /\ Len(TheValues) = 1 => fl_out = Ok(PyList(<<>>))

\* [['a', 'b']] gave []
C5_Witness ==
  /\ fl_pc = "done"
  /\ fl_dict = OneCategory(PyList(<<PyList(<<SA, SB>>)>>))
  /\ fl_out = Ok(PyList(<<>>))

\* C6: a string element that holds a '.' is in the output as given, under
\* any prefix, and a list of such strings gives exactly those strings.
C6_DottedPassThrough ==
  (fl_pc # "call" /\ OneList) =>
    /\ \A i \in 1..Len(TheValues) :
         (TheValues[i].t = "str" /\ HasDot(TheValues[i].v)) =>
           fl_out.exc = "none" /\ TheValues[i] \in OutSet
    /\ (\A i \in 1..Len(TheValues) :
          TheValues[i].t = "str" /\ HasDot(TheValues[i].v)) =>
           fl_out.exc = "none" /\ OutSet = PySet(TheValues)

\* ['a.b', 'a'] under the prefix 'p' gave ['a.b', 'p.a']
C6_Witness ==
  /\ fl_pc = "done" /\ fl_prefix = <<112>>
  /\ fl_dict = OneCategory(PyList(<<SAB, SA>>))
  /\ fl_out = Ok(PyList(<<SAB, PyStr(<<112, DOT, 97>>)>>))

\* C7: flattening the list a call returned gives that list again.
C7_Idempotent ==
  fl_pc = "again" => fl_out2 = fl_out

\* the second call was made on a result that differs from the first input
C7_Witness ==
  /\ fl_pc = "again" /\ OneList
  /\ Len(fl_out.val.v) >= 3 /\ fl_out.val.v # TheValues
  /\ fl_out2 = fl_out

\* C8: flatten_categories never raises, and returns [] for None, for an
\* empty mapping, for a value that is no mapping and for a mapping whose
\* values are no lists.
C8_NeverRaises ==
  fl_pc # "call" =>
    /\ fl_out.exc = "none"
    /\ (\/ fl_dict.t # "dict"
        \/ \A i \in 1..Len(fl_dict.v) : fl_dict.v[i][2].t # "list")
         => fl_out = Ok(PyList(<<>>))

\* what flatten_categories returns for one of the categories alone
Alone(i) == flatten_categories(PyDict(<<fl_dict.v[i]>>), fl_prefix, PyNone)

\* C13: on a mapping of several categories, each a list, the output is the
\* union of what each category gives alone: a category's paths depend on
\* its own list only, and a sublist that starts a category's list is
\* dropped.
C13_CategoriesIndependent ==
  (/\ fl_pc # "call" /\ fl_dict.t = "dict" /\ Len(fl_dict.v) >= 2
   /\ \A i \in 1..Len(fl_dict.v) : fl_dict.v[i][2].t = "list") =>
    /\ fl_out.exc = "none"
    /\ OutSet = UNION {PySet(Alone(i).val.v) : i \in 1..Len(fl_dict.v)}

\* C18: on one category, an element that is a mapping gives, for each key
\* and each string in the key's list, the path '<key>.<string>' in the
\* output, next to the plain entries.
C18_NestedMappings ==
  (fl_pc # "call" /\ OneList /\ fl_prefix = <<>>) =>
    /\ fl_out.exc = "none"
    /\ \A i \in 1..Len(TheValues) :
         /\ (TheValues[i].t = "str") => TheValues[i] \in OutSet
         /\ (TheValues[i].t = "dict") =>
              \A j \in 1..Len(TheValues[i].v) :
                LET key == TheValues[i].v[j][1]
                    children == TheValues[i].v[j][2]
                IN children.t = "list" =>
                     \A k \in 1..Len(children.v) :
                       children.v[k].t = "str" => Join(key, children.v[k]) \in OutSet

\* the elements of the categories that are lists, in the order the two
\* loops visit them
RECURSIVE AllValues(_)
AllValues(pairs) ==
  IF pairs = <<>> THEN <<>>
  ELSE (IF Head(pairs)[2].t = "list" THEN Head(pairs)[2].v ELSE <<>>)
       \o AllValues(Tail(pairs))

Visited == AllValues(fl_dict.v)

\* the entries the n-th visited element adds: a string adds itself, a
\* sublist adds '<last entry so far>.<child>' for each child when there is
\* an entry so far, and anything else adds nothing
Added(n) ==
  LET item == Visited[n]
      before == LastEntry(Visited, fl_prefix, n - 1)
  IN IF item.t = "str" THEN {LastEntry(Visited, fl_prefix, n)}
     ELSE IF item.t = "list" /\ before # PyNone
     THEN {Join(before, item.v[k]) : k \in 1..Len(item.v)}
     ELSE {}

\* C21: the parent of a sublist is the last entry in the accumulator at
\* that moment. On every mapping the call returns exactly the entries each
\* element adds with that parent: of two sublists in a row the second one's
\* children are under the last child of the first, and an element that is
\* neither a string nor a list adds nothing and leaves the parent of a
\* sublist after it the one it was.
C21_ParentIsLastEntry ==
  (fl_pc # "call" /\ fl_dict.t = "dict") =>
    /\ fl_out.exc = "none"
    /\ OutSet = UNION {Added(n) : n \in 1..Len(Visited)}
    /\ \A n \in 2..Len(Visited) :
         LET first == Visited[n - 1]
             parent == LastEntry(Visited, fl_prefix, n - 1)
         IN (Visited[n].t = "list" /\ parent # PyNone) =>
              /\ (first.t = "list" /\ first.v # <<>> /\ n > 2
                    /\ LastEntry(Visited, fl_prefix, n - 2) # PyNone) =>
                   parent = Join(LastEntry(Visited, fl_prefix, n - 2),
                                 first.v[Len(first.v)])
              /\ (first.t \notin {"str", "list"}) =>
                   parent = LastEntry(Visited, fl_prefix, n - 2)
              /\ \A k \in 1..Len(Visited[n].v) :
                   Join(parent, Visited[n].v[k]) \in OutSet

\* ['a', ['b'], ['a']] gave ['a', 'a.b', 'a.b.a'], and no 'a.a'
C21_Witness ==
  /\ fl_pc = "done" /\ fl_prefix = <<>>
  /\ fl_dict = OneCategory(PyList(<<SA, PyList(<<SB>>), PyList(<<SA>>)>>))
  /\ fl_out = Ok(PyList(<<SA, SAB, PyStr(<<97, DOT, 98, DOT, 97>>)>>))
  /\ PyStr(<<97, DOT, 97>>) \notin OutSet

-----------------------------------------------------------------------------
(* Claims about the lists both functions return.                           *)

\* l[i] < l[j] for i < j, between values of one type
StrictlyAscending(l) ==
  \A i, j \in 1..Len(l) : i < j => l[i].t = l[j].t /\ PyLess(l[i], l[j])

\* C2: the list flatten_categories returns, and every category list
\* load_categories returns, is strictly ascending: sorted, and no path
\* twice.
C2_SortedNoDuplicates ==
  /\ Returned => StrictlyAscending(fl_out.val.v)
  /\ (fl_pc = "again" /\ fl_out2.exc = "none") => StrictlyAscending(fl_out2.val.v)
  /\ (ld_pc = "done" /\ ld_out.exc = "none") =>
       \A i \in 1..Len(ld_out.val.v) : StrictlyAscending(ld_out.val.v[i][2].v)

\* ['b', 'a', 'b'] was loaded as ['a', 'b'] and flattened to ['a', 'b']
C2_Witness ==
  /\ ld_pc = "done"
  /\ ld_file = CatFile(TRUE, TRUE, OneCategory(PyList(<<SB, SA, SB>>)))
  /\ ld_out = Ok(OneCategory(PyList(<<SA, SB>>)))
  /\ fl_pc = "done" /\ fl_out = Ok(PyList(<<SA, SB>>))

-----------------------------------------------------------------------------
(* Claims about load_categories.                                           *)

\* a key or scalar of the data model: a non-empty string
Segment(x) == x.t = "str" /\ x.v # <<>>

\* the tree holds only segments, None, lists and mappings
RECURSIVE StrTree(_)
StrTree(x) ==
  CASE x.t = "list" -> \A i \in 1..Len(x.v) : StrTree(x.v[i])
    [] x.t = "dict" -> \A i \in 1..Len(x.v) : Segment(x.v[i][1]) /\ StrTree(x.v[i][2])
    [] x.t = "none" -> TRUE
    [] OTHER -> Segment(x)

\* The paths of a tree, each the sequence of its segments from the root: a
\* key, and the key before each path of its value; in a list, a scalar, and
\* the paths of each mapping.
RECURSIVE PathsOf(_)
PathsOf(x) ==
  CASE x.t = "list" ->
         UNION {IF x.v[i].t = "dict" THEN PathsOf(x.v[i]) ELSE {<<x.v[i]>>} :
                i \in 1..Len(x.v)}
    [] x.t = "dict" ->
         UNION {{<<x.v[i][1]>>} \cup {<<x.v[i][1]>> \o q : q \in PathsOf(x.v[i][2])} :
                i \in 1..Len(x.v)}
    [] OTHER -> {}

\* segments joined with '.'
RECURSIVE JoinPath(_)
JoinPath(q) ==
  IF Len(q) = 1 THEN q[1].v
  ELSE JoinPath(SubSeq(q, 1, Len(q) - 1)) \o <<DOT>> \o q[Len(q)].v

\* the list stored for a category, <<>> when none is
ListFor(pairs, category) ==
  IF \E i \in 1..Len(pairs) : pairs[i][1] = category
  THEN pairs[CHOOSE i \in 1..Len(pairs) : pairs[i][1] = category][2].v
  ELSE <<>>

LoadedDict == ld_pc = "done" /\ ld_file.exists /\ ld_file.parses /\ ld_file.data.t = "dict"
ListCategories == {i \in 1..Len(ld_file.data.v) : ld_file.data.v[i][2].t = "list"}

C9_NeverFails ==
  ld_pc = "done" =>
    /\ ld_out.exc = "none"
    /\ (~ld_file.exists \/ ~ld_file.parses \/ ld_file.data.t # "dict")
         => ld_out = Ok(PyDict(<<>>))

\* C14: a top-level key has an entry in the result exactly when its value
\* is a sequence, also when the sequence is empty or gives no path, and the
\* entry is what sorted(set()) gives for the paths of the sequence.
C14_EntryIffSequence ==
  (LoadedDict /\ ld_out.exc = "none") =>
    \A i \in 1..Len(ld_file.data.v) :
      LET category == ld_file.data.v[i][1]
          items == ld_file.data.v[i][2]
      IN /\ HasKey(ld_out.val, category) <=> items.t = "list"
         /\ items.t = "list" =>
              Ok(Lookup(ld_out.val, category)) = PySorted(Processed(items.v))

\* the call that followed the load flattened one loaded category, and that
\* category's list holds strings only
FlattenedLoaded ==
  /\ ld_pc = "done" /\ ld_out.exc = "none" /\ fl_pc \in {"done", "again"}
  /\ \A k \in 1..Len(TheValues) : TheValues[k].t = "str"

\* C17: flatten_categories({C: categories[C]}) on a loaded category C of
\* strings returns categories[C] as it is, so the options of the selector
\* for C are the loaded list.
C17_LoadedIsFlat ==
  FlattenedLoaded =>
    /\ \E i \in 1..Len(ld_out.val.v) : fl_dict = PyDict(<<ld_out.val.v[i]>>)
    /\ fl_out = Ok(fl_dict.v[1][2])
    /\ Menu(fl_out.val.v) = Menu(TheValues)

\* ['b', {'a': ['b', {'a': ['a', 'b']}]}] was loaded and its list of six
\* paths flattened to itself
C17_Witness ==
  /\ FlattenedLoaded
  /\ ld_file = CatFile(TRUE, TRUE, OneCategory(PyList(DeepList)))
  /\ Len(TheValues) = 6 /\ TheValues[3] = PyStr(<<97, DOT, 97, DOT, 97>>)
  /\ fl_out.val.v = TheValues

====
